---- MODULE Spec2Model ----
(***************************************************************************)
(* Model of simple_document_extractor.py: the DocumentExtractor format     *)
(* handlers and dispatcher, the /extract-text/ and /chat/ endpoints and    *)
(* the module's top-to-bottom load order.                                  *)
(*                                                                         *)
(* Strings are sequences of tokens.  An extension or a filename is a       *)
(* sequence of one-character strings; a text produced by a handler is a    *)
(* sequence whose tokens are characters or the literal pieces of the       *)
(* source's f-strings.  A Python call that may raise is an operator        *)
(* returning [raised, value]: value is the returned text, or the           *)
(* exception's message when raised is TRUE.                                *)
(***************************************************************************)
EXTENDS Integers, Sequences, FiniteSets, TLC

VARIABLES inp, pc, fs, loc, resp, obs, chat, ld

vars == <<inp, pc, fs, loc, resp, obs, chat, ld>>

-----------------------------------------------------------------------------
(* Bounds of the model *)

MaxPages == 3

MaxItems == 2

MaxTemp == 2

MaxOver == 1

MaxServed == 2

(* request.documentText[:100000] *)
ChatLimit == 100000

-----------------------------------------------------------------------------
(* Strings *)

SeqsUpTo(S, n) == UNION {[1..k -> S] : k \in 0..n}

UpperChars == <<"A","B","C","D","E","F","G","H","I","J","K","L","M",
                "N","O","P","Q","R","S","T","U","V","W","X","Y","Z">>

LowerChars == <<"a","b","c","d","e","f","g","h","i","j","k","l","m",
                "n","o","p","q","r","s","t","u","v","w","x","y","z">>

LowerChar(c) ==
    IF \E i \in 1..26 : UpperChars[i] = c
    THEN LowerChars[CHOOSE i \in 1..26 : UpperChars[i] = c]
    ELSE c

UpperChar(c) ==
    IF \E i \in 1..26 : LowerChars[i] = c
    THEN UpperChars[CHOOSE i \in 1..26 : LowerChars[i] = c]
    ELSE c

(* str.lower() *)
lower(s) == [i \in 1..Len(s) |-> LowerChar(s[i])]

upper(s) == [i \in 1..Len(s) |-> UpperChar(s[i])]

(* str.rfind(c): the last index of c (1-based), 0 when absent *)
rfind(s, c) ==
    IF \E i \in 1..Len(s) : s[i] = c
    THEN CHOOSE i \in 1..Len(s) : s[i] = c /\ \A j \in (i+1)..Len(s) : s[j] # c
    ELSE 0

(* os.path.splitext(p): <<root, ext>>.  The extension starts at the last  *)
(* dot after the last separator, unless only dots precede it in the name. *)
splitext(p) ==
    LET sepIndex == rfind(p, "/")
        dotIndex == rfind(p, ".")
    IN  IF dotIndex > sepIndex
           /\ \E k \in (sepIndex+1)..(dotIndex-1) : p[k] # "."
        THEN <<SubSeq(p, 1, dotIndex - 1), SubSeq(p, dotIndex, Len(p))>>
        ELSE <<p, <<>> >>

RECURSIVE Concat(_)
(* "".join(parts) *)
Concat(parts) ==
    IF parts = <<>> THEN <<>> ELSE Head(parts) \o Concat(Tail(parts))

RECURSIVE Join(_, _)
(* sep.join(parts) *)
Join(sep, parts) ==
    IF parts = <<>> THEN <<>>
    ELSE IF Len(parts) = 1 THEN parts[1]
    ELSE parts[1] \o sep \o Join(sep, Tail(parts))

RECURSIVE Filter(_, _)
Filter(s, Drop) ==
    IF s = <<>> THEN <<>>
    ELSE IF Head(s) \in Drop THEN Filter(Tail(s), Drop)
    ELSE <<Head(s)>> \o Filter(Tail(s), Drop)

NL == <<"\n">>

NLNL == <<"\n", "\n">>

-----------------------------------------------------------------------------
(* File contents.  A content is [fmt, items]: the bytes of a well-formed   *)
(* document of format fmt with the listed parts, or bytes no library       *)
(* accepts ("garbage"), or no bytes at all ("empty").                      *)

(* a byte that is not valid UTF-8, and the marker errors='replace' puts *)
BAD == "\\xff"

REPL == "\\ufffd"

PageTexts == {<<>>, <<"a">>, <<"b">>}

Paragraphs == {<<"p">>, <<"q">>}

TxtBytes == {"a", BAD}

HtmlTokens == {"<p>", "h", "&amp;"}

TagTokens == {"<p>"}

Tables == {<< <<"h">> >>, << <<"h">>, <<"1">> >>}

Sheets == {[name |-> <<"Sheet1">>, rows |-> << <<"h">>, <<"1">> >>],
           [name |-> <<"Data">>, rows |-> << <<"k">> >>]}

Shapes == {[has_text |-> TRUE, text |-> <<"s">>],
           [has_text |-> FALSE, text |-> <<>>]}

Slides == {<<>>, <<[has_text |-> TRUE, text |-> <<"s">>]>>,
           <<[has_text |-> FALSE, text |-> <<>>], [has_text |-> TRUE, text |-> <<"s">>]>>}

Doc(f, it) == [fmt |-> f, items |-> it]

PdfContents == {Doc("pdf", p) : p \in SeqsUpTo(PageTexts, MaxPages)}

AllContents ==
    {Doc("empty", <<>>), Doc("garbage", <<BAD>>)}
    \cup PdfContents
    \cup {Doc("docx", p) : p \in SeqsUpTo(Paragraphs, MaxItems)}
    \cup {Doc("txt", b) : b \in SeqsUpTo(TxtBytes, MaxItems)}
    \cup {Doc("csv", t) : t \in Tables}
    \cup {Doc("xlsx", sh) : sh \in SeqsUpTo(Sheets, MaxItems)}
    \cup {Doc("pptx", sl) : sl \in SeqsUpTo(Slides, MaxItems)}
    \cup {Doc("html", h) : h \in SeqsUpTo(HtmlTokens, MaxItems)}

BasicContents ==
    {Doc("empty", <<>>), Doc("garbage", <<BAD>>),
     Doc("pdf", << <<"a">>, <<"b">> >>),
     Doc("docx", << <<"p">>, <<"q">> >>),
     Doc("txt", <<"a", BAD>>),
     Doc("csv", << <<"h">>, <<"1">> >>),
     Doc("xlsx", <<[name |-> <<"Sheet1">>, rows |-> << <<"h">>, <<"1">> >>]>>),
     Doc("pptx", << <<[has_text |-> TRUE, text |-> <<"s">>]>> >>),
     Doc("html", <<"<p>", "h">>)}

(* the cells of a row, sep between them *)
Cells(sep, row) == Join(sep, [j \in 1..Len(row) |-> <<row[j]>>])

(* the bytes of a content, as the text-mode readers see them *)
RawBytes(c) ==
    CASE c.fmt \in {"txt", "html"} -> c.items
      [] c.fmt = "empty" -> <<>>
      [] c.fmt = "csv" -> Join(NL, [i \in 1..Len(c.items) |-> Cells(<<",">>, c.items[i])])
      [] OTHER -> <<c.fmt, BAD>>

(* bytes.decode('utf-8', errors='replace') *)
Decode(b) == [i \in 1..Len(b) |-> IF b[i] = BAD THEN REPL ELSE b[i]]

(* DataFrame.to_string(): every cell, row by row *)
to_string(rows) == Join(NL, [i \in 1..Len(rows) |-> Cells(<<" ">>, rows[i])])

-----------------------------------------------------------------------------
(* Calls that may raise *)

Ret(k, v) == [raised |-> FALSE, key |-> k, value |-> v]

Raise(msg) == [raised |-> TRUE, key |-> "exc", value |-> msg]

(* open(file_path, ...) and the libraries' own opening of file_path *)
open(fsys, path, fault) ==
    IF fault = "open" THEN Raise(<<"[Errno 13] Permission denied">>)
    ELSE IF path \notin DOMAIN fsys THEN Raise(<<"[Errno 2] No such file or directory">>)
    ELSE Ret("file", <<fsys[path].data>>)

(* a library's parse of an opened file: it accepts the formats in ok *)
Parse(f, ok, msg) ==
    IF f.raised THEN f
    ELSE IF f.value[1].fmt \in ok THEN Ret("doc", f.value[1].items)
    ELSE Raise(msg)

-----------------------------------------------------------------------------
(* DocumentExtractor: the format handlers.  Each X_body is the handler's   *)
(* try block; extract_from_X adds its except clause.                       *)

RECURSIVE PdfLoopShort(_, _, _)
(* the page loop over range(len(pdf_reader.pages) - 1) *)
PdfLoopShort(pages, page_num, text) ==
    IF page_num >= Len(pages) THEN text
    ELSE PdfLoopShort(pages, page_num + 1, text \o pages[page_num] \o NLNL)

RECURSIVE PdfLoop(_, _, _)
(* for page_num in range(len(pdf_reader.pages)): text += ... + "\n\n" *)
PdfLoop(pages, page_num, text) ==
    IF page_num > Len(pages) THEN text
    ELSE PdfLoop(pages, page_num + 1, text \o pages[page_num] \o NLNL)

pdf_body(fsys, path, fault) ==
    LET pdf_reader == Parse(open(fsys, path, fault), {"pdf"}, <<"EOF marker not found">>)
    IN  IF pdf_reader.raised THEN pdf_reader
        ELSE Ret("str", PdfLoop(pdf_reader.value, 1, <<>>))

Caught(label, body) ==
    IF body.raised
    THEN Ret("str", <<"Error extracting text from ", label, ": ">> \o body.value)
    ELSE body

(* extract_from_pdf without its except clause *)
extract_from_pdf_unguarded(fsys, path, fault) == pdf_body(fsys, path, fault)

extract_from_pdf(fsys, path, fault) == Caught("PDF", pdf_body(fsys, path, fault))

docx_body(fsys, path, fault) ==
    LET doc == Parse(open(fsys, path, fault), {"docx"}, <<"File is not a zip file">>)
    IN  IF doc.raised THEN doc ELSE Ret("str", Join(NLNL, doc.value))

extract_from_docx(fsys, path, fault) == Caught("DOCX", docx_body(fsys, path, fault))

(* mammoth.extract_raw_text: every paragraph followed by a blank line *)
doc_body(fsys, path, fault) ==
    LET result == Parse(open(fsys, path, fault), {"docx"}, <<"File is not a zip file">>)
    IN  IF result.raised THEN result
        ELSE Ret("str", Concat([i \in 1..Len(result.value) |-> result.value[i] \o NLNL]))

extract_from_doc(fsys, path, fault) == Caught("DOC", doc_body(fsys, path, fault))

txt_body(fsys, path, fault) ==
    LET file == open(fsys, path, fault)
    IN  IF file.raised THEN file
        ELSE Ret("str", Decode(RawBytes(file.value[1])))

extract_from_txt(fsys, path, fault) == Caught("TXT", txt_body(fsys, path, fault))

csv_body(fsys, path, fault) ==
    LET df == Parse(open(fsys, path, fault), {"csv"}, <<"No columns to parse from file">>)
    IN  IF df.raised THEN df ELSE Ret("str", to_string(df.value))

extract_from_csv(fsys, path, fault) == Caught("CSV", csv_body(fsys, path, fault))

RECURSIVE ExcelLoop(_, _, _)
(* for sheet_name, sheet_df in df.items() *)
ExcelLoop(df, k, result) ==
    IF k > Len(df) THEN result
    ELSE ExcelLoop(df, k + 1,
                   result \o <<"Sheet: ">> \o df[k].name \o NL
                          \o to_string(df[k].rows) \o NLNL)

excel_body(fsys, path, fault) ==
    LET df == Parse(open(fsys, path, fault), {"xlsx"}, <<"Excel file format cannot be determined">>)
    IN  IF df.raised THEN df ELSE Ret("str", ExcelLoop(df.value, 1, <<>>))

extract_from_excel(fsys, path, fault) == Caught("Excel", excel_body(fsys, path, fault))

RECURSIVE ShapeLoop(_, _, _)
(* for shape in slide.shapes: if hasattr(shape, "text"): text += shape.text + "\n" *)
ShapeLoop(shapes, k, text) ==
    IF k > Len(shapes) THEN text
    ELSE ShapeLoop(shapes, k + 1,
                   IF shapes[k].has_text THEN text \o shapes[k].text \o NL ELSE text)

RECURSIVE SlideLoop(_, _, _)
(* for slide in pres.slides: ...; text += "\n" *)
SlideLoop(slides, k, text) ==
    IF k > Len(slides) THEN text
    ELSE SlideLoop(slides, k + 1, ShapeLoop(slides[k], 1, text) \o NL)

pptx_body(fsys, path, fault) ==
    LET pres == Parse(open(fsys, path, fault), {"pptx"}, <<"Package not found">>)
    IN  IF pres.raised THEN pres ELSE Ret("str", SlideLoop(pres.value, 1, <<>>))

extract_from_pptx(fsys, path, fault) == Caught("PowerPoint", pptx_body(fsys, path, fault))

(* BeautifulSoup(...).get_text(): markup dropped, entities decoded *)
get_text(s) ==
    LET t == Filter(s, TagTokens)
    IN  [i \in 1..Len(t) |-> IF t[i] = "&amp;" THEN "&" ELSE t[i]]

html_body(fsys, path, fault) ==
    LET file == open(fsys, path, fault)
    IN  IF file.raised THEN file
        ELSE Ret("str", get_text(Decode(RawBytes(file.value[1]))))

extract_from_html(fsys, path, fault) == Caught("HTML", html_body(fsys, path, fault))

-----------------------------------------------------------------------------
(* DocumentExtractor.process_file *)

(* the image list without its last entry *)
ImageSuffixesShort ==
    {<<".","j","p","g">>, <<".","j","p","e","g">>, <<".","p","n","g">>,
     <<".","b","m","p">>, <<".","g","i","f">>}

ImageSuffixes ==
    {<<".","j","p","g">>, <<".","j","p","e","g">>, <<".","p","n","g">>,
     <<".","b","m","p">>, <<".","g","i","f">>, <<".","t","i","f","f">>}

(* the if/elif ladder's conditions, in the source's order *)
Branch(file_ext) ==
    IF file_ext = <<".","p","d","f">> THEN "pdf"
    ELSE IF file_ext = <<".","d","o","c","x">> THEN "docx"
    ELSE IF file_ext = <<".","d","o","c">> THEN "doc"
    ELSE IF file_ext = <<".","t","x","t">> THEN "txt"
    ELSE IF file_ext \in {<<".","c","s","v">>} THEN "csv"
    ELSE IF file_ext \in {<<".","x","l","s">>, <<".","x","l","s","x">>} THEN "excel"
    ELSE IF file_ext = <<".","p","p","t","x">> THEN "pptx"
    ELSE IF file_ext \in {<<".","h","t","m","l">>, <<".","h","t","m">>} THEN "html"
    ELSE IF file_ext \in ImageSuffixes THEN "image"
    ELSE "unsupported"

HandlerBranches == {"pdf", "docx", "doc", "txt", "csv", "excel", "pptx", "html"}

(* the call of a handler from the ladder: the call itself can fail before *)
(* the handler's try block is entered (fault "dispatch")                  *)
Call(handler, fault) ==
    IF fault = "dispatch" THEN Raise(<<"maximum recursion depth exceeded">>)
    ELSE handler

(* line 146 *)
ImageText == <<"Image processing is not supported in this version.">>

UnsupportedTextNoExt(file_ext) == <<"Unsupported file format: ">>

(* line 148: f"Unsupported file format: {file_ext}" *)
UnsupportedText(file_ext) == <<"Unsupported file format: ">> \o file_ext

(* the try block of process_file *)
process_file_body(fsys, path, file_ext, fault) ==
    LET b == Branch(file_ext)
        text ==
          CASE b = "pdf" -> Call(extract_from_pdf(fsys, path, fault), fault)
            [] b = "docx" -> Call(extract_from_docx(fsys, path, fault), fault)
            [] b = "doc" -> Call(extract_from_doc(fsys, path, fault), fault)
            [] b = "txt" -> Call(extract_from_txt(fsys, path, fault), fault)
            [] b = "csv" -> Call(extract_from_csv(fsys, path, fault), fault)
            [] b = "excel" -> Call(extract_from_excel(fsys, path, fault), fault)
            [] b = "pptx" -> Call(extract_from_pptx(fsys, path, fault), fault)
            [] b = "html" -> Call(extract_from_html(fsys, path, fault), fault)
            [] b = "image" -> Ret("str", ImageText)
            [] OTHER -> Ret("str", UnsupportedText(file_ext))
    IN  IF text.raised THEN text ELSE Ret("text", text.value)

(* process_file without its own try/except *)
process_file_unguarded(fsys, path, file_ext, fault) ==
    process_file_body(fsys, path, file_ext, fault)

process_file(fsys, path, file_ext, fault) ==
    LET r == process_file_body(fsys, path, file_ext, fault)
    IN  IF r.raised THEN Ret("error", <<"Error processing file: ">> \o r.value)
        ELSE r

-----------------------------------------------------------------------------
(* Uploads *)

ImageNames ==
    {<<".","j","p","g">>, <<".","j","p","e","g">>, <<".","p","n","g">>,
     <<".","b","m","p">>, <<".","g","i","f">>, <<".","t","i","f","f">>}

KnownSuffixes ==
    {<<".","p","d","f">>, <<".","d","o","c","x">>, <<".","d","o","c">>,
     <<".","t","x","t">>, <<".","c","s","v">>, <<".","x","l","s">>,
     <<".","x","l","s","x">>, <<".","p","p","t","x">>, <<".","h","t","m","l">>,
     <<".","h","t","m">>} \cup ImageNames

UnknownSuffixes ==
    {<<>>, <<".">>, <<".","m","d">>, <<".","p","d">>, <<".","P","d","f","x">>}

(* first letter in upper case: ".Pdf" *)
Capitalized(e) == [i \in 1..Len(e) |-> IF i = 2 THEN UpperChar(e[i]) ELSE e[i]]

Suffixes ==
    KnownSuffixes \cup {upper(e) : e \in KnownSuffixes}
    \cup {Capitalized(e) : e \in KnownSuffixes} \cup UnknownSuffixes

Stems == {<<"a">>, <<>>, <<"a",".","b">>, <<"d",".","e","/","f">>}

AllNames == {st \o e : st \in Stems, e \in Suffixes}

CanonicalNames == {<<"a">> \o e : e \in KnownSuffixes \cup {<<>>, <<".","m","d">>}}

Faults == {"none", "read", "write", "open", "dispatch"}

Upload(fl, hn, fn, c, ft) ==
    [file |-> fl, has_name |-> hn, filename |-> fn, content |-> c, fault |-> ft]

WideInputs ==
    {Upload(TRUE, TRUE, fn, c, ft) : fn \in AllNames, c \in BasicContents, ft \in Faults}
    \cup {Upload(TRUE, TRUE, fn, c, ft) : fn \in CanonicalNames, c \in AllContents, ft \in Faults}
    \cup {Upload(TRUE, FALSE, <<>>, c, ft) : c \in BasicContents, ft \in Faults}
    \cup {Upload(FALSE, FALSE, <<>>, Doc("empty", <<>>), "none")}

NarrowNames == {<<"a",".","p","d","f">>, <<"a",".","T","X","T">>, <<"a",".","p","n","g">>}

NarrowContents == {Doc("pdf", << <<"a">> >>), Doc("txt", <<"a", BAD>>), Doc("garbage", <<BAD>>)}

NarrowInputs ==
    {Upload(TRUE, TRUE, fn, c, ft) : fn \in NarrowNames, c \in NarrowContents,
                                     ft \in {"none", "write", "dispatch"}}

-----------------------------------------------------------------------------
(* The /extract-text/ endpoint: extract_text, one step per statement that  *)
(* touches the upload or the file system.                                  *)

TempNames == 1..MaxTemp

Unset == Doc("unset", <<>>)

NoExc == [raised |-> FALSE, key |-> "none", value |-> <<>>]

NoResp == [status |-> 0, key |-> "none", value |-> <<>>]

Loc0 == [temp_name |-> 0, handle_open |-> FALSE, contents |-> Unset,
         file_ext |-> <<>>, result |-> NoExc, exc |-> NoExc]

Obs0 == [branch |-> "none", tried |-> FALSE, handler_raised |-> FALSE,
         opened |-> FALSE, processed |-> FALSE, others |-> FALSE]

Chat0 == [pc |-> "idle"]

Ld0 == [pc |-> "idle"]

(* a temporary name chosen without looking at the existing files *)
AnyName(fsys) == TempNames

(* tempfile.NamedTemporaryFile: a name no existing file has *)
FreshNames(fsys) == TempNames \ DOMAIN fsys

Put(fsys, n, c, who) == [m \in DOMAIN fsys \cup {n} |-> IF m = n THEN [data |-> c, owner |-> who] ELSE fsys[m]]

(* an unlink that removes nothing *)
RemoveNothing(fsys, n) == fsys

Remove(fsys, n) == [m \in DOMAIN fsys \ {n} |-> fsys[m]]

HTTPException(code, detail) == [status |-> code, key |-> "detail", value |-> detail]

JSONResponse(d) == [status |-> 200, key |-> d.key, value |-> d.value]

(* lines 160-165: the empty-upload check and the temporary file *)
Start(r) ==
    /\ pc[r] = "start"
    /\ IF ~inp[r].file
       THEN /\ resp' = [resp EXCEPT ![r] = HTTPException(400, <<"No file provided">>)]
            /\ pc' = [pc EXCEPT ![r] = "done"]
            /\ UNCHANGED <<fs, loc>>
       ELSE \E n \in FreshNames(fs) :
              /\ fs' = Put(fs, n, Doc("empty", <<>>), r)
              /\ loc' = [loc EXCEPT ![r].temp_name = n, ![r].handle_open = TRUE]
              /\ pc' = [pc EXCEPT ![r] = "read"]
              /\ UNCHANGED resp
    /\ UNCHANGED <<inp, obs, chat, ld>>

(* line 168: contents = await file.read() *)
ReadUpload(r) ==
    /\ pc[r] = "read"
    /\ IF inp[r].fault = "read"
       THEN /\ loc' = [loc EXCEPT ![r].exc = Raise(<<"read of closed file">>)]
            /\ pc' = [pc EXCEPT ![r] = "finally"]
       ELSE /\ loc' = [loc EXCEPT ![r].contents = inp[r].content]
            /\ pc' = [pc EXCEPT ![r] = "write"]
    /\ UNCHANGED <<inp, fs, resp, obs, chat, ld>>

(* lines 169-170: open(temp_file.name, 'wb') truncates, then f.write *)
WriteTemp(r) ==
    /\ pc[r] = "write"
    /\ LET n == loc[r].temp_name
           who == IF n \in DOMAIN fs THEN fs[n].owner ELSE r
       IN  IF inp[r].fault = "write"
           THEN /\ fs' = Put(fs, n, Doc("empty", <<>>), who)
                /\ loc' = [loc EXCEPT ![r].exc = Raise(<<"[Errno 28] No space left on device">>)]
                /\ pc' = [pc EXCEPT ![r] = "finally"]
           ELSE /\ fs' = Put(fs, n, loc[r].contents, who)
                /\ pc' = [pc EXCEPT ![r] = "ext"]
                /\ UNCHANGED loc
    /\ UNCHANGED <<inp, resp, obs, chat, ld>>

(* the suffix taken without .lower() *)
file_ext_raw(filename) == splitext(filename)[2]

(* line 173: file_ext = os.path.splitext(file.filename)[1].lower() *)
file_ext_of(filename) == lower(splitext(filename)[2])

DeriveExt(r) ==
    /\ pc[r] = "ext"
    /\ IF ~inp[r].has_name
       THEN /\ loc' = [loc EXCEPT ![r].exc =
                         Raise(<<"expected str, bytes or os.PathLike object, not NoneType">>)]
            /\ pc' = [pc EXCEPT ![r] = "finally"]
       ELSE /\ loc' = [loc EXCEPT ![r].file_ext = file_ext_of(inp[r].filename)]
            /\ pc' = [pc EXCEPT ![r] = "process"]
    /\ UNCHANGED <<inp, fs, resp, obs, chat, ld>>

(* the try block of the handler the ladder selects, for the observations *)
HandlerBody(b, fsys, path, fault) ==
    CASE b = "pdf" -> pdf_body(fsys, path, fault)
      [] b = "docx" -> docx_body(fsys, path, fault)
      [] b = "doc" -> doc_body(fsys, path, fault)
      [] b = "txt" -> txt_body(fsys, path, fault)
      [] b = "csv" -> csv_body(fsys, path, fault)
      [] b = "excel" -> excel_body(fsys, path, fault)
      [] b = "pptx" -> pptx_body(fsys, path, fault)
      [] b = "html" -> html_body(fsys, path, fault)
      [] OTHER -> NoExc

Observe(r, fsys, path, file_ext, fault) ==
    LET b == Branch(file_ext)
        t == b \in HandlerBranches /\ fault # "dispatch"
    IN  [branch |-> b, tried |-> t,
         handler_raised |-> t /\ HandlerBody(b, fsys, path, fault).raised,
         opened |-> t /\ ~open(fsys, path, fault).raised,
         processed |-> TRUE,
         others |-> \E n \in DOMAIN fsys : fsys[n].owner # r]

(* lines 176-178: result = DocumentExtractor.process_file(...); return result *)
Process(r) ==
    /\ pc[r] = "process"
    /\ LET result == process_file(fs, loc[r].temp_name, loc[r].file_ext, inp[r].fault)
       IN  /\ loc' = [loc EXCEPT ![r] =
                        IF result.raised THEN [@ EXCEPT !.exc = result]
                        ELSE [@ EXCEPT !.result = result]]
           /\ obs' = [obs EXCEPT ![r] =
                        Observe(r, fs, loc[r].temp_name, loc[r].file_ext, inp[r].fault)]
    /\ pc' = [pc EXCEPT ![r] = "finally"]
    /\ UNCHANGED <<inp, fs, resp, chat, ld>>

(* lines 179-180 and the function's result, once the finally block is over *)
Outcome(l) ==
    IF l.exc.raised
    THEN HTTPException(500, <<"Error processing file: ">> \o l.exc.value)
    ELSE JSONResponse(l.result)

(* lines 183-184: temp_file.close(); os.path.exists(temp_file.name) *)
FinallyClose(r) ==
    /\ pc[r] = "finally"
    /\ loc' = [loc EXCEPT ![r].handle_open = FALSE]
    /\ IF loc[r].temp_name \in DOMAIN fs
       THEN /\ pc' = [pc EXCEPT ![r] = "unlink"]
            /\ UNCHANGED resp
       ELSE /\ pc' = [pc EXCEPT ![r] = "done"]
            /\ resp' = [resp EXCEPT ![r] = Outcome(loc[r])]
    /\ UNCHANGED <<inp, fs, obs, chat, ld>>

(* line 185: os.unlink(temp_file.name) *)
Unlink(r) ==
    /\ pc[r] = "unlink"
    /\ IF loc[r].temp_name \in DOMAIN fs
       THEN /\ fs' = Remove(fs, loc[r].temp_name)
            /\ resp' = [resp EXCEPT ![r] = Outcome(loc[r])]
       ELSE /\ fs' = fs
            /\ resp' = [resp EXCEPT ![r] = HTTPException(500, <<"Internal Server Error">>)]
    /\ pc' = [pc EXCEPT ![r] = "done"]
    /\ UNCHANGED <<inp, loc, obs, chat, ld>>

Requests == DOMAIN inp

InitWith(inputs) ==
    /\ inp = inputs
    /\ pc = [r \in DOMAIN inputs |-> "start"]
    /\ fs = <<>>
    /\ loc = [r \in DOMAIN inputs |-> Loc0]
    /\ resp = [r \in DOMAIN inputs |-> NoResp]
    /\ obs = [r \in DOMAIN inputs |-> Obs0]
    /\ chat = Chat0
    /\ ld = Ld0

(* one request, every upload *)
Init == \E u \in WideInputs : InitWith([r \in {1} |-> u])

Next ==
    \/ \E r \in Requests : Start(r)
    \/ \E r \in Requests : ReadUpload(r)
    \/ \E r \in Requests : WriteTemp(r)
    \/ \E r \in Requests : DeriveExt(r)
    \/ \E r \in Requests : Process(r)
    \/ \E r \in Requests : FinallyClose(r)
    \/ \E r \in Requests : Unlink(r)

Spec == Init /\ [][Next]_vars

(* two requests in flight, interleaved statement by statement *)
InitConc == \E inputs \in [{1, 2} -> NarrowInputs] : InitWith(inputs)

SpecConc == InitConc /\ [][Next]_vars

-----------------------------------------------------------------------------
(* The /chat/ endpoint: chat_with_document *)

(* A text of the chat request is a sequence of runs [ch, n]: n >= 1 copies *)
(* of the character ch.                                                    *)
Run(c, k) == [ch |-> c, n |-> k]

RECURSIVE TextLen(_)
(* len(text) *)
TextLen(t) == IF t = <<>> THEN 0 ELSE Head(t).n + TextLen(Tail(t))

RECURSIVE CharAt(_, _)
(* text[i - 1], for i in 1..len(text) *)
CharAt(t, i) == IF i <= Head(t).n THEN Head(t).ch ELSE CharAt(Tail(t), i - Head(t).n)

Documents ==
    {<<>>, <<Run("x", 1)>>, <<Run("x", 1), Run("y", 1)>>,
     <<Run("x", ChatLimit - 1)>>,
     <<Run("x", ChatLimit - 1), Run("y", 1)>>,
     <<Run("x", 2), Run("y", ChatLimit - 2)>>}
    \cup {<<Run("x", ChatLimit - 1), Run("y", 1), Run("z", k)>> : k \in 1..MaxOver}
    \cup {<<Run("x", ChatLimit + k)>> : k \in 1..MaxOver}
    \cup {<<Run("x", 2), Run("y", ChatLimit - 3), Run("z", 1 + k)>> : k \in 1..MaxOver}

UserMessages == {<<Run("w", 1), Run("?", 1)>>, <<>>}

(* what openai.ChatCompletion.create does: a completion, a response with  *)
(* no choices, or an exception                                            *)
ServiceOutcomes ==
    {[kind |-> "completion", text |-> <<"yes">>],
     [kind |-> "completion", text |-> <<"The document does not contain information on that topic.">>],
     [kind |-> "no_choices", text |-> <<"list index out of range">>],
     [kind |-> "raises", text |-> <<"No API key provided.">>],
     [kind |-> "raises", text |-> <<"Rate limit reached">>]}

system_prompt ==
    <<Run("You are an assistant that only answers based on the provided document text.\n", 1),
      Run("If the information is not in the document, reply: 'The document does not contain information on that topic.'", 1)>>

(* a slice that keeps the whole text *)
slice_all(s, k) == s

RECURSIVE slice_to(_, _)
(* s[:k], for k >= 0 *)
slice_to(s, k) ==
    IF s = <<>> \/ k <= 0 THEN <<>>
    ELSE IF Head(s).n <= k THEN <<Head(s)>> \o slice_to(Tail(s), k - Head(s).n)
    ELSE <<Run(Head(s).ch, k)>>

(* lines 332-335: the messages handed to the completion service *)
messages(request) ==
    <<[role |-> "system", content |-> system_prompt],
      [role |-> "user",
       content |-> <<Run("Document:\n", 1)>> \o slice_to(request.documentText, ChatLimit)
                   \o <<Run("\n\nUser Question:\n", 1)>> \o request.userMessage]>>

InitChat ==
    /\ \E d \in Documents, m \in UserMessages, o \in ServiceOutcomes :
         chat = [pc |-> "start",
                 request |-> [documentText |-> d, userMessage |-> m],
                 service |-> o, sent |-> <<>>, reply |-> NoExc, resp |-> NoResp]
    /\ inp = <<>> /\ pc = <<>> /\ fs = <<>> /\ loc = <<>> /\ resp = <<>> /\ obs = <<>>
    /\ ld = Ld0

(* lines 324-336: the call of openai.ChatCompletion.create *)
ChatCall ==
    /\ chat.pc = "start"
    /\ chat' = [chat EXCEPT !.pc = "called",
                            !.sent = messages(chat.request),
                            !.reply = IF chat.service.kind = "raises"
                                      THEN Raise(chat.service.text)
                                      ELSE Ret(chat.service.kind, chat.service.text)]
    /\ UNCHANGED <<inp, pc, fs, loc, resp, obs, ld>>

(* lines 337-341: the answer taken from the response, or the except clause *)
ChatReturn ==
    /\ chat.pc = "called"
    /\ chat' = [chat EXCEPT !.pc = "done",
                            !.resp = IF chat.reply.raised \/ chat.reply.key = "no_choices"
                                     THEN [status |-> 200, key |-> "error", value |-> chat.reply.value]
                                     ELSE [status |-> 200, key |-> "answer", value |-> chat.reply.value]]
    /\ UNCHANGED <<inp, pc, fs, loc, resp, obs, ld>>

NextChat == ChatCall \/ ChatReturn

SpecChat == InitChat /\ [][NextChat]_vars

-----------------------------------------------------------------------------
(* The module's load order, top to bottom, and the server it starts *)

Route(m, p) == [method |-> m, path |-> p]

Paths == {<<"/">>, <<"/extract-text/">>, <<"/chat/">>}

Methods == {"GET", "POST"}

(* the router: the handler's status, 405 for a path under another method, *)
(* 404 for a path no route has                                            *)
Dispatch(routes, m, p) ==
    IF Route(m, p) \in routes THEN 200
    ELSE IF \E rt \in routes : rt.path = p THEN 405
    ELSE 404

InitLoad ==
    /\ \E mode \in {"main", "import"} :
         ld = [pc |-> "imports", mode |-> mode, names |-> {}, routes |-> {},
               serving |-> FALSE, failed |-> <<>>, served |-> <<>>]
    /\ inp = <<>> /\ pc = <<>> /\ fs = <<>> /\ loc = <<>> /\ resp = <<>> /\ obs = <<>>
    /\ chat = Chat0

Rest == <<inp, pc, fs, loc, resp, obs, chat>>

(* lines 1-17 *)
ImportLibraries ==
    /\ ld.pc = "imports"
    /\ ld' = [ld EXCEPT !.pc = "app",
                        !.names = @ \cup {"FastAPI", "UploadFile", "File", "HTTPException",
                                          "uvicorn", "os", "tempfile", "Dict"}]
    /\ UNCHANGED Rest

(* lines 19-28 *)
CreateApp ==
    /\ ld.pc = "app"
    /\ ld' = [ld EXCEPT !.pc = "extractor", !.names = @ \cup {"app"}]
    /\ UNCHANGED Rest

(* lines 30-152 *)
DefineDocumentExtractor ==
    /\ ld.pc = "extractor"
    /\ ld' = [ld EXCEPT !.pc = "route_extract", !.names = @ \cup {"DocumentExtractor"}]
    /\ UNCHANGED Rest

(* lines 155-156 *)
RegisterExtractText ==
    /\ ld.pc = "route_extract"
    /\ ld' = [ld EXCEPT !.pc = "route_root",
                        !.routes = @ \cup {Route("POST", <<"/extract-text/">>)},
                        !.names = @ \cup {"extract_text"}]
    /\ UNCHANGED Rest

(* lines 188-189 *)
RegisterRoot ==
    /\ ld.pc = "route_root"
    /\ ld' = [ld EXCEPT !.pc = "main_guard",
                        !.routes = @ \cup {Route("GET", <<"/">>)},
                        !.names = @ \cup {"read_root"}]
    /\ UNCHANGED Rest

(* lines 304-306: if __name__ == "__main__": uvicorn.run(app, ...) *)
MainGuard ==
    /\ ld.pc = "main_guard"
    /\ ld' = IF ld.mode = "main"
             THEN [ld EXCEPT !.pc = "uvicorn_run", !.serving = TRUE]
             ELSE [ld EXCEPT !.pc = "import_openai"]
    /\ UNCHANGED Rest

(* a request reaches the running server *)
ServeRequest ==
    /\ ld.serving
    /\ Len(ld.served) < MaxServed
    /\ \E m \in Methods, p \in Paths :
         ld' = [ld EXCEPT !.served =
                  Append(@, [method |-> m, path |-> p, status |-> Dispatch(ld.routes, m, p)])]
    /\ UNCHANGED Rest

(* uvicorn.run returns when the server is stopped *)
Shutdown ==
    /\ ld.pc = "uvicorn_run"
    /\ ld' = [ld EXCEPT !.pc = "import_basemodel", !.serving = FALSE]
    /\ UNCHANGED Rest

(* line 308, inside the __main__ block *)
ImportBaseModel ==
    /\ ld.pc = "import_basemodel"
    /\ ld' = [ld EXCEPT !.pc = "import_openai", !.names = @ \cup {"BaseModel"}]
    /\ UNCHANGED Rest

(* lines 309-313 *)
ImportOpenAI ==
    /\ ld.pc = "import_openai"
    /\ ld' = [ld EXCEPT !.pc = "chat_request", !.names = @ \cup {"openai", "load_dotenv"}]
    /\ UNCHANGED Rest

(* lines 315-317: class ChatRequest(BaseModel) *)
DefineChatRequest ==
    /\ ld.pc = "chat_request"
    /\ ld' = IF "BaseModel" \in ld.names
             THEN [ld EXCEPT !.pc = "route_chat", !.names = @ \cup {"ChatRequest"}]
             ELSE [ld EXCEPT !.pc = "failed",
                             !.failed = <<"NameError: name 'BaseModel' is not defined">>]
    /\ UNCHANGED Rest

(* lines 319-320 *)
RegisterChat ==
    /\ ld.pc = "route_chat"
    /\ ld' = [ld EXCEPT !.pc = "end",
                        !.routes = @ \cup {Route("POST", <<"/chat/">>)},
                        !.names = @ \cup {"chat_with_document"}]
    /\ UNCHANGED Rest

(* the end of the file: an importing server starts serving app, the main *)
(* program exits                                                         *)
EndOfModule ==
    /\ ld.pc = "end"
    /\ ld' = [ld EXCEPT !.pc = "loaded", !.serving = (ld.mode = "import")]
    /\ UNCHANGED Rest

NextLoad ==
    \/ ImportLibraries
    \/ CreateApp
    \/ DefineDocumentExtractor
    \/ RegisterExtractText
    \/ RegisterRoot
    \/ MainGuard
    \/ ServeRequest
    \/ Shutdown
    \/ ImportBaseModel
    \/ ImportOpenAI
    \/ DefineChatRequest
    \/ RegisterChat
    \/ EndOfModule

SpecLoad == InitLoad /\ [][NextLoad]_vars

-----------------------------------------------------------------------------
(* Properties of the extraction pipeline *)

Done(r) == pc[r] = "done"

(* the suffix of the uploaded filename, as uploaded *)
Suffix(r) == splitext(inp[r].filename)[2]

FormatLabel(b) ==
    CASE b = "pdf" -> "PDF" [] b = "docx" -> "DOCX" [] b = "doc" -> "DOC"
      [] b = "txt" -> "TXT" [] b = "csv" -> "CSV" [] b = "excel" -> "Excel"
      [] b = "pptx" -> "PowerPoint" [] b = "html" -> "HTML" [] OTHER -> "?"

LibraryMessages ==
    {<<"[Errno 13] Permission denied">>, <<"[Errno 2] No such file or directory">>,
     <<"EOF marker not found">>, <<"File is not a zip file">>,
     <<"No columns to parse from file">>, <<"Excel file format cannot be determined">>,
     <<"Package not found">>}

IsExtractionError(text, b) ==
    /\ Len(text) > 3
    /\ SubSeq(text, 1, 3) = <<"Error extracting text from ", FormatLabel(b), ": ">>
    /\ SubSeq(text, 4, Len(text)) \in LibraryMessages

(* C1: whenever an exception is raised inside a format handler (opening or *)
(* parsing the file), for any of the eight handlers, process_file returns  *)
(* {"text": "Error extracting text from <FORMAT>: <message>"}: nothing is  *)
(* raised, the shape is never {"error": ...}, and the endpoint answers 200 *)
(* with that body.                                                         *)
C1_HandlerFailureIsText ==
    \A r \in Requests :
        obs[r].handler_raised =>
            /\ obs[r].branch \in HandlerBranches
            /\ ~loc[r].exc.raised
            /\ loc[r].result.key = "text"
            /\ IsExtractionError(loc[r].result.value, obs[r].branch)
            /\ Done(r) => resp[r] = [status |-> 200, key |-> "text",
                                     value |-> loc[r].result.value]

(* a corrupted upload named .pdf has been answered *)
C1_Witness ==
    \E r \in Requests :
        /\ Done(r)
        /\ obs[r].handler_raised
        /\ obs[r].branch = "pdf"
        /\ inp[r].content = Doc("garbage", <<BAD>>)
        /\ inp[r].fault = "none"

(* C2: a request that has terminated, on whichever path, has left no       *)
(* temporary file of its own behind and holds no open handle.              *)
C2_TempFileReleased ==
    \A r \in Requests :
        Done(r) =>
            /\ \A n \in DOMAIN fs : fs[n].owner # r
            /\ ~loc[r].handle_open

(* a request that created its file and then failed with a 500 is over *)
C2_Witness ==
    \E r \in Requests :
        /\ Done(r)
        /\ loc[r].temp_name \in TempNames
        /\ resp[r].status = 500
        /\ inp[r].fault = "write"

(* the failure the claim is about happened in process_file, outside the *)
(* handlers' try blocks                                                 *)
DispatchFailed(r) ==
    /\ obs[r].processed
    /\ inp[r].fault = "dispatch"
    /\ obs[r].branch \in HandlerBranches

(* C3 as stated: a failure in process_file outside the handlers' try      *)
(* blocks reaches the HTTP boundary as a server error (status 500).       *)
C3_Original ==
    \A r \in Requests : (Done(r) /\ DispatchFailed(r)) => resp[r].status = 500

(* C3 amended: such a failure is caught by process_file's own except      *)
(* clause and answered as the normal body {"error": "Error processing     *)
(* file: <message>"} with status 200; only a failure outside process_file *)
(* (reading the upload, writing the file, deriving the extension) is a    *)
(* server error, status 500.                                              *)
C3_Amended ==
    \A r \in Requests :
        Done(r) =>
            /\ DispatchFailed(r) =>
                 resp[r] = [status |-> 200, key |-> "error",
                            value |-> <<"Error processing file: ",
                                        "maximum recursion depth exceeded">>]
            /\ (resp[r].status = 500) <=>
                 (inp[r].file /\ (inp[r].fault \in {"read", "write"} \/ ~inp[r].has_name))
            /\ resp[r].status = 500 =>
                 (resp[r].key = "detail" /\ resp[r].value[1] = "Error processing file: ")

C3_Witness ==
    \E r \in Requests : Done(r) /\ DispatchFailed(r) /\ obs[r].branch = "docx"

(* the routing table of the specification: suffix, branch *)
RoutingTable ==
    {<<s, "image">> : s \in ImageNames} \cup
    {<< <<".","p","d","f">>, "pdf">>, << <<".","d","o","c","x">>, "docx">>,
     << <<".","d","o","c">>, "doc">>, << <<".","t","x","t">>, "txt">>,
     << <<".","c","s","v">>, "csv">>, << <<".","x","l","s">>, "excel">>,
     << <<".","x","l","s","x">>, "excel">>, << <<".","p","p","t","x">>, "pptx">>,
     << <<".","h","t","m","l">>, "html">>, << <<".","h","t","m">>, "html">>}

SameIgnoringCase(a, b) ==
    /\ Len(a) = Len(b)
    /\ \A i \in 1..Len(a) : LowerChar(a[i]) = LowerChar(b[i])

RoutedBranch(e) ==
    IF \E row \in RoutingTable : SameIgnoringCase(e, row[1])
    THEN (CHOOSE row \in RoutingTable : SameIgnoringCase(e, row[1]))[2]
    ELSE "unsupported"

(* C4 as stated: process_file itself treats an extension e like            *)
(* lowercase(e): same branch, same result.                                 *)
C4_Original ==
    \A r \in Requests :
        pc[r] = "process" =>
            /\ Branch(Suffix(r)) = Branch(lower(Suffix(r)))
            /\ process_file(fs, loc[r].temp_name, Suffix(r), inp[r].fault)
                 = process_file(fs, loc[r].temp_name, lower(Suffix(r)), inp[r].fault)

(* C4 amended: the /extract-text/ endpoint lower-cases the filename's      *)
(* suffix before it calls process_file, so an upload is routed by its      *)
(* suffix compared case-insensitively; process_file itself compares        *)
(* exactly, and sends any extension with an upper-case letter to the       *)
(* unsupported fallback.                                                   *)
C4_Amended ==
    \A r \in Requests :
        obs[r].processed =>
            /\ loc[r].file_ext = lower(Suffix(r))
            /\ obs[r].branch = RoutedBranch(Suffix(r))
            /\ Suffix(r) # lower(Suffix(r)) => Branch(Suffix(r)) = "unsupported"

(* an upload named a.PDF went to the PDF handler *)
C4_Witness ==
    \E r \in Requests :
        /\ Done(r)
        /\ Suffix(r) = <<".","P","D","F">>
        /\ obs[r].branch = "pdf"
        /\ obs[r].tried

(* C5: an upload whose lower-cased suffix is none of the known suffixes    *)
(* (the empty suffix included) is answered {"text": "Unsupported file      *)
(* format: <lower-cased suffix>"}; no handler runs, the file is not        *)
(* opened, and the shape is never an error.                                *)
C5_UnsupportedIsText ==
    \A r \in Requests :
        (obs[r].processed /\ lower(Suffix(r)) \notin KnownSuffixes) =>
            /\ obs[r].branch = "unsupported"
            /\ ~obs[r].tried /\ ~obs[r].opened
            /\ ~loc[r].exc.raised
            /\ loc[r].result = Ret("text", <<"Unsupported file format: ">> \o lower(Suffix(r)))
            /\ Done(r) => resp[r] = [status |-> 200, key |-> "text",
                                     value |-> <<"Unsupported file format: ">> \o lower(Suffix(r))]

(* an upload with an unknown mixed-case suffix has been answered *)
C5_Witness ==
    \E r \in Requests :
        /\ Done(r)
        /\ obs[r].processed
        /\ Suffix(r) = <<".","P","d","f","x">>
        /\ resp[r].status = 200

(* C6: an upload with an image suffix is answered with the fixed message,  *)
(* whatever its bytes; the file is not opened and no handler runs.         *)
C6_ImageIsFixedText ==
    \A r \in Requests :
        (obs[r].processed /\ lower(Suffix(r)) \in ImageNames) =>
            /\ obs[r].branch = "image"
            /\ ~obs[r].tried /\ ~obs[r].opened
            /\ ~loc[r].exc.raised
            /\ loc[r].result =
                 Ret("text", <<"Image processing is not supported in this version.">>)
            /\ Done(r) => resp[r] =
                 [status |-> 200, key |-> "text",
                  value |-> <<"Image processing is not supported in this version.">>]

(* a .tiff upload of garbage bytes has been answered *)
C6_Witness ==
    \E r \in Requests :
        /\ Done(r)
        /\ obs[r].processed
        /\ Suffix(r) = <<".","t","i","f","f">>
        /\ inp[r].content = Doc("garbage", <<BAD>>)

(* a well-formed PDF went through the PDF handler with nothing failing *)
PdfExtracted(r) ==
    /\ obs[r].processed
    /\ obs[r].branch = "pdf"
    /\ inp[r].content.fmt = "pdf"
    /\ inp[r].fault = "none"

(* C7 as stated: the text is the page texts joined by "\n\n", a separator  *)
(* only between consecutive pages.                                         *)
C7_Original ==
    \A r \in Requests :
        PdfExtracted(r) => loc[r].result.value = Join(NLNL, inp[r].content.items)

(* C7 amended: the text is the page texts in page order, each one followed *)
(* by "\n\n", the last one included: the joined text plus one trailing     *)
(* "\n\n" (and the empty text for a PDF of no pages).                      *)
C7_Amended ==
    \A r \in Requests :
        PdfExtracted(r) =>
            /\ loc[r].result.key = "text"
            /\ loc[r].result.value =
                 IF inp[r].content.items = <<>> THEN <<>>
                 ELSE Join(NLNL, inp[r].content.items) \o NLNL

(* a PDF of three pages has been answered *)
C7_Witness ==
    \E r \in Requests :
        /\ Done(r)
        /\ PdfExtracted(r)
        /\ inp[r].content.items = << <<"a">>, <<>>, <<"b">> >>
        /\ resp[r].value = <<"a", "\n", "\n", "\n", "\n", "b", "\n", "\n">>

(* the response of an upload handled with nothing else running *)
AloneResponse(u) ==
    IF ~u.file THEN HTTPException(400, <<"No file provided">>)
    ELSE IF u.fault = "read"
    THEN HTTPException(500, <<"Error processing file: ", "read of closed file">>)
    ELSE IF u.fault = "write"
    THEN HTTPException(500, <<"Error processing file: ", "[Errno 28] No space left on device">>)
    ELSE IF ~u.has_name
    THEN HTTPException(500, <<"Error processing file: ",
                              "expected str, bytes or os.PathLike object, not NoneType">>)
    ELSE JSONResponse(process_file(Put(<<>>, 1, u.content, 0), 1,
                                   lower(splitext(u.filename)[2]), u.fault))

-----------------------------------------------------------------------------
(* Properties of the /chat/ endpoint and of the load order *)

(* the part of the forwarded user message between its two literal pieces *)
ForwardedDocument ==
    LET c == chat.sent[2].content
    IN  SubSeq(c, 2, Len(c) - 1 - Len(chat.request.userMessage))

(* C9: the user message handed to the completion service holds the first   *)
(* min(len(documentText), 100000) characters of documentText, unchanged    *)
(* and never more, between the two literal pieces of the prompt; and the   *)
(* endpoint returns {"answer": ...} when the call produced a completion    *)
(* and {"error": ...} when anything was raised, nothing else.              *)
C9_BoundedPrefixAndShape ==
    /\ chat.pc = "called" =>
         LET doc == chat.request.documentText
             c == chat.sent[2].content
             msg == chat.request.userMessage
             k == IF TextLen(doc) < 100000 THEN TextLen(doc) ELSE 100000
         IN  /\ c[1] = Run("Document:\n", 1)
             /\ c[Len(c) - Len(msg)] = Run("\n\nUser Question:\n", 1)
             /\ SubSeq(c, Len(c) - Len(msg) + 1, Len(c)) = msg
             /\ TextLen(ForwardedDocument) = k
             /\ \A i \in 1..k : CharAt(ForwardedDocument, i) = CharAt(doc, i)
    /\ chat.pc = "done" =>
         /\ TextLen(ForwardedDocument) <= 100000
         /\ chat.resp.status = 200
         /\ chat.resp.key \in {"answer", "error"}
         /\ chat.resp.key = "answer" <=> chat.service.kind = "completion"
         /\ chat.resp.value = chat.service.text

(* a document of 100001 characters has been answered *)
C9_Witness ==
    /\ chat.pc = "done"
    /\ TextLen(chat.request.documentText) = 100001
    /\ Len(chat.request.documentText) = 3
    /\ TextLen(ForwardedDocument) = 100000
    /\ chat.resp.key = "answer"

(* C10 as stated: while the application serves requests both               *)
(* /extract-text/ and /chat/ are registered, and loading the module never  *)
(* fails.                                                                  *)
C10_Original ==
    /\ ld.pc # "failed"
    /\ ld.serving =>
         {Route("POST", <<"/extract-text/">>), Route("POST", <<"/chat/">>)} \subseteq ld.routes

====
